---- MODULE Spec2Model ----
(***************************************************************************)
(* A model of the format-dispatch engine of jimeh/go-render: the Renderer  *)
(* registry (renderer.go), the Multi fallback composer and the error       *)
(* sentinels, with the mock handlers and the mock writer of the test       *)
(* suite standing for the handlers and writers a caller can plug in.       *)
(*                                                                         *)
(* Strings are sequences of one-character strings.  An error message is a  *)
(* sequence of pieces: a literal is one piece, a formatted %s argument     *)
(* contributes its characters.  A Go error is a record                     *)
(*   [id, msg, chain]                                                      *)
(* where chain is the set of identities errors.Is can find by unwrapping.  *)
(***************************************************************************)
EXTENDS Integers, Sequences, FiniteSets, TLC

VARIABLES
    Handlers,   \* Renderer.Handlers: format name -> Handler
    adds,       \* number of Add calls made on the Renderer so far
    mr,         \* the Handlers list of the Multi under direct test
    log,        \* the Add calls made so far, where a history is kept
    running,    \* goroutine -> the frame of the Render call it is in
    derived,    \* the Renderer that NewWith made from the Renderer, if any
    last        \* the last call: its inputs, the writer after it, its result

vars == <<Handlers, adds, mr, log, running, derived, last>>

----------------------------------------------------------------------------
(* Bounds                                                                  *)

MaxNameLen == 2
MaxAdds == 2
MaxHandlers == 3
MaxReq == 2
MaxGo == 2

----------------------------------------------------------------------------
(* Strings                                                                 *)

Chars == {"a", "A", "b"}

\* strings.ToLower on one character
LowerChar(c) == CASE c = "A" -> "a" [] c = "B" -> "b" [] OTHER -> c

ToLower(s) == [i \in 1..Len(s) |-> LowerChar(s[i])]

SeqsUpTo(S, n) == UNION {[1..k -> S] : k \in 0..n}

Names == SeqsUpTo(Chars, MaxNameLen)

----------------------------------------------------------------------------
(* Errors                                                                  *)

Nil == [id |-> "nil", msg |-> <<>>, chain |-> {}]

\* errors.Is(err, target) for targets compared by identity
Is(err, target) == target.id \in err.chain

\* errors.New(text)
ErrorsNew(id, text) == [id |-> id, msg |-> <<text>>, chain |-> {id}]

\* fmt.Errorf("%w: " + text, e), kept under the identity id
Sentinel(id, e, text) ==
    [id |-> id, msg |-> e.msg \o <<": ", text>>, chain |-> {id} \cup e.chain]

\* fmt.Errorf("%w: %s", e, s) and fmt.Errorf("%w: %T", e, v) with s the
\* formatted argument: a new error value wrapping e
ErrorfWS(e, s) ==
    [id |-> "anon", msg |-> e.msg \o <<": ">> \o s, chain |-> {"anon"} \cup e.chain]

\* fmt.Errorf("%w: %w", e1, e2): a new error value wrapping both
ErrorfWW(e1, e2) ==
    [id |-> "anon", msg |-> e1.msg \o <<": ">> \o e2.msg,
     chain |-> {"anon"} \cup e1.chain \cup e2.chain]

Err == ErrorsNew("Err", "render")
ErrFailed == Sentinel("ErrFailed", Err, "failed")
ErrCannotRender == Sentinel("ErrCannotRender", Err, "cannot render")
ErrUnsupportedFormat == Sentinel("ErrUnsupportedFormat", Err, "unsupported format")

----------------------------------------------------------------------------
(* Values and writers                                                      *)

\* the values the tests pass to the mock handlers: "test" and struct{}{}
Values == {[type |-> "string"], [type |-> "struct {}"]}

\* the %T verb
TypeName(v) == <<v.type>>

WriteError == ErrorsNew("write error", "write error!!1")

\* mockWriter: a buffer, and the error its Write returns when set
NewWriter(writeErr) == [buf |-> <<>>, WriteErr |-> writeErr]

Writers == {NewWriter(Nil), NewWriter(WriteError)}

\* mockWriter.Write
Write(w, p) ==
    IF w.WriteErr # Nil
    THEN [w |-> w, err |-> w.WriteErr]
    ELSE [w |-> [w EXCEPT !.buf = @ \o p], err |-> Nil]

----------------------------------------------------------------------------
(* Values the Text handler is given                                        *)

\* a capability the value does not have
None == [has |-> FALSE]

\* A value as Text.Render sees it: the name %T prints for its type, the
\* case of the type switch its concrete type falls under ("bytes", "runes",
\* "string", "scalar", or "other" for every other type), its contents, and
\* for each interface of the switch the behaviour of the value's method or
\* None when the type does not have it:
\*   reader    [value, err]  Read delivers value, or fails with err
\*   writerTo  [value, err]  WriteTo writes value and returns err
\*   stringer  [value]       the result of String()
\*   error     [value]       the result of Error()
TextValue(type, kind, data, reader, writerTo, stringer, error) ==
    [type |-> type, kind |-> kind, data |-> data, reader |-> reader,
     writerTo |-> writerTo, stringer |-> stringer, error |-> error]

\* []byte(string(x)) for one rune: UTF-8, one byte for an ASCII letter,
\* the bytes C3 A9 for U+00E9
EncodeRune(c) == IF c = "U+00E9" THEN <<"C3", "A9">> ELSE <<c>>

\* []byte(string(x)) for x []rune
RECURSIVE EncodeRunes(_)
EncodeRunes(x) ==
    IF x = <<>> THEN <<>> ELSE EncodeRune(Head(x)) \o EncodeRunes(Tail(x))

\* the decimal digits of a natural number
RECURSIVE Decimal(_)
Decimal(n) ==
    LET digit == <<"0", "1", "2", "3", "4", "5", "6", "7", "8", "9">>
    IN IF n < 10 THEN <<digit[n + 1]>>
       ELSE Decimal(n \div 10) \o <<digit[(n % 10) + 1]>>

\* the %v verb for an integer or a bool
FormatV(v) ==
    IF v.type = "bool"
    THEN IF v.data THEN <<"t", "r", "u", "e">> ELSE <<"f", "a", "l", "s", "e">>
    ELSE IF v.data < 0 THEN <<"-">> \o Decimal(0 - v.data)
    ELSE Decimal(v.data)

ReadError == ErrorsNew("Read error", "Read error!!1")
WriteToError == ErrorsNew("WriteTo error", "WriteTo error!!1")

\* mockWriterTo.WriteTo
WriteTo(v, w) ==
    LET r == Write(w, v.writerTo.value)
    IN [w |-> r.w,
        err |-> IF v.writerTo.err # Nil THEN v.writerTo.err ELSE r.err]

\* io.Copy(w, x): x.WriteTo(w) when x has WriteTo; else mockReader.Read
\* until io.EOF, each chunk read being written to w (one chunk holds all of
\* the value; nothing is read from an empty one, and nothing written)
IoCopy(w, v) ==
    IF v.writerTo # None THEN WriteTo(v, w)
    ELSE IF v.reader.err # Nil THEN [w |-> w, err |-> v.reader.err]
    ELSE IF v.reader.value = <<>> THEN [w |-> w, err |-> Nil]
    ELSE Write(w, v.reader.value)

\* faulty variant: the reader is rewound after it was read
AfterIoCopyRewound(v) == v

\* the value after io.Copy(w, x): mockReader.Read moves the cursor of the
\* *mockReader to the end of its value, whether or not the chunk read could
\* be written, so that the value of the reader, the bytes not yet read, is
\* empty; a Read that fails and a WriteTo leave the value as it was
AfterIoCopy(v) ==
    IF v.writerTo = None /\ v.reader.err = Nil
    THEN [v EXCEPT !.reader.value = <<>>]
    ELSE v

----------------------------------------------------------------------------
(* Handlers                                                                *)

\* A Handler value.  kind tells the concrete type and with it the optional
\* interfaces the value implements:
\*   mockHandler        Handler, FormatsHandler
\*   mockPrettyHandler  Handler, PrettyHandler, FormatsHandler
\*   Multi              Handler, PrettyHandler, FormatsHandler
mockHandler(output, formats, err) ==
    [kind |-> "mockHandler", output |-> output, prettyOutput |-> <<>>,
     formats |-> formats, err |-> err, Handlers |-> <<>>]

mockPrettyHandler(output, prettyOutput, formats, err) ==
    [kind |-> "mockPrettyHandler", output |-> output,
     prettyOutput |-> prettyOutput, formats |-> formats, err |-> err,
     Handlers |-> <<>>]

Multi(handlers) ==
    [kind |-> "Multi", output |-> <<>>, prettyOutput |-> <<>>,
     formats |-> <<>>, err |-> Nil, Handlers |-> handlers]

\* a Handler with Render alone, neither PrettyHandler nor FormatsHandler
bareHandler(output, err) ==
    [kind |-> "bareHandler", output |-> output, prettyOutput |-> <<>>,
     formats |-> <<>>, err |-> err, Handlers |-> <<>>]

\* r.(FormatsHandler)
IsFormatsHandler(h) == h.kind # "bareHandler"

\* &Text{}, with the formats its Formats() returns
TextHandler ==
    [kind |-> "Text", output |-> <<>>, prettyOutput |-> <<>>,
     formats |-> <<<<"t", "e", "x", "t">>, <<"t", "x", "t">>,
                   <<"p", "l", "a", "i", "n">>>>,
     err |-> Nil, Handlers |-> <<>>]

\* &JSON{}, &XML{}, &YAML{} and &Binary{}, with the formats their Formats()
\* return
JSONHandler ==
    [kind |-> "JSON", output |-> <<>>, prettyOutput |-> <<>>,
     formats |-> <<<<"j", "s", "o", "n">>>>, err |-> Nil, Handlers |-> <<>>]

XMLHandler ==
    [kind |-> "XML", output |-> <<>>, prettyOutput |-> <<>>,
     formats |-> <<<<"x", "m", "l">>>>, err |-> Nil, Handlers |-> <<>>]

YAMLHandler ==
    [kind |-> "YAML", output |-> <<>>, prettyOutput |-> <<>>,
     formats |-> <<<<"y", "a", "m", "l">>, <<"y", "m", "l">>>>,
     err |-> Nil, Handlers |-> <<>>]

BinaryHandler ==
    [kind |-> "Binary", output |-> <<>>, prettyOutput |-> <<>>,
     formats |-> <<<<"b", "i", "n", "a", "r", "y">>, <<"b", "i", "n">>>>,
     err |-> Nil, Handlers |-> <<>>]

\* handler.(PrettyHandler)
IsPrettyHandler(h) == h.kind \in {"mockPrettyHandler", "Multi", "JSON", "XML"}

\* An invocation of a handler method, as a counter on the handler would
\* see it: the handler, its index in the surrounding Multi (0 when the
\* Renderer called it), the method, the error it returned and the bytes it
\* appended to the writer w it was given (r is its Result).
Call(h, i, m, w, r) ==
    [h |-> h, i |-> i, m |-> m, err |-> r.err,
     out |-> SubSeq(r.w.buf, Len(w.buf) + 1, Len(r.w.buf))]

\* the result of a handler method: the writer after it, the returned error
\* and the invocations of contained handlers it made
Result(w, err, calls) == [w |-> w, err |-> err, calls |-> calls]

\* mockHandler.Render / mockPrettyHandler.Render: write the output, then
\* return the configured error if any, else the error of the write
MockRender(h, w, v) ==
    LET r == Write(w, h.output)
    IN Result(r.w, IF h.err # Nil THEN h.err ELSE r.err, <<>>)

\* mockPrettyHandler.RenderPretty
MockRenderPretty(h, w, v) ==
    LET r == Write(w, h.prettyOutput)
    IN Result(r.w, IF h.err # Nil THEN h.err ELSE r.err, <<>>)

\* faulty variant: the bare sentinel, without the type of the value
CannotRenderBare(v) == ErrCannotRender

\* fmt.Errorf("%w: %T", ErrCannotRender, v)
CannotRender(v) == ErrorfWS(ErrCannotRender, TypeName(v))

\* faulty variant: fmt.Stringer is looked for first among the interfaces
TextBranchStringerFirst(v) ==
    IF v.kind = "bytes" THEN "[]byte"
    ELSE IF v.kind = "runes" THEN "[]rune"
    ELSE IF v.kind = "string" THEN "string"
    ELSE IF v.kind = "scalar" THEN "scalar"
    ELSE IF v.stringer # None THEN "fmt.Stringer"
    ELSE IF v.reader # None THEN "io.Reader"
    ELSE IF v.writerTo # None THEN "io.WriterTo"
    ELSE IF v.error # None THEN "error"
    ELSE "default"

\* Text.Render, the type switch: the first case the value matches
TextBranch(v) ==
    IF v.kind = "bytes" THEN "[]byte"
    ELSE IF v.kind = "runes" THEN "[]rune"
    ELSE IF v.kind = "string" THEN "string"
    ELSE IF v.kind = "scalar" THEN "scalar"
    ELSE IF v.reader # None THEN "io.Reader"
    ELSE IF v.writerTo # None THEN "io.WriterTo"
    ELSE IF v.stringer # None THEN "fmt.Stringer"
    ELSE IF v.error # None THEN "error"
    ELSE "default"

\* Text.Render, the body of the case b: the writer after it and err
TextCase(b, w, v) ==
    CASE b = "[]byte" -> Write(w, v.data)
      [] b = "[]rune" -> Write(w, EncodeRunes(v.data))
      [] b = "string" -> Write(w, v.data)
      [] b = "scalar" -> Write(w, FormatV(v))
      [] b = "io.Reader" -> IoCopy(w, v)
      [] b = "io.WriterTo" -> WriteTo(v, w)
      [] b = "fmt.Stringer" -> Write(w, v.stringer.value)
      [] b = "error" -> Write(w, v.error.value)

\* faulty variant: a value that matches no case is reported as a failed
\* operation
TextRenderNoCaseFailed(w, v) ==
    LET b == TextBranch(v)
    IN IF b = "default"
       THEN Result(w, ErrorfWS(ErrFailed, TypeName(v)), <<>>)
       ELSE LET r == TextCase(b, w, v)
            IN Result(r.w,
                      IF r.err # Nil THEN ErrorfWW(ErrFailed, r.err) ELSE Nil,
                      <<Call(v, 0, b, w, r)>>)

\* faulty variant: the error of a case is reported as a value that cannot
\* be rendered
TextRenderFailureAsCannotRender(w, v) ==
    LET b == TextBranch(v)
    IN IF b = "default" THEN Result(w, CannotRender(v), <<>>)
       ELSE LET r == TextCase(b, w, v)
            IN Result(r.w,
                      IF r.err # Nil THEN ErrorfWW(ErrCannotRender, r.err)
                      ELSE Nil,
                      <<Call(v, 0, b, w, r)>>)

\* Text.Render; the case taken is logged like an invocation, with the
\* error the case left in err and the bytes it wrote
TextRender(w, v) ==
    LET b == TextBranch(v)
    IN IF b = "default" THEN Result(w, CannotRender(v), <<>>)
       ELSE LET r == TextCase(b, w, v)
            IN Result(r.w,
                      IF r.err # Nil THEN ErrorfWW(ErrFailed, r.err) ELSE Nil,
                      <<Call(v, 0, b, w, r)>>)

\* faulty variant: the error of MarshalBinary is returned as it came
BinaryRenderUnwrapped(w, v) ==
    IF v.marshaler = None THEN Result(w, CannotRender(v), <<>>)
    ELSE IF v.marshaler.err # Nil THEN Result(w, v.marshaler.err, <<>>)
    ELSE LET r == Write(w, v.marshaler.data)
         IN Result(r.w,
                   IF r.err # Nil THEN ErrorfWW(ErrFailed, r.err) ELSE Nil,
                   <<>>)

\* Binary.Render; the value's marshaler is [data, err], what MarshalBinary
\* returns, or None when the value is no encoding.BinaryMarshaler
BinaryRender(w, v) ==
    IF v.marshaler = None THEN Result(w, CannotRender(v), <<>>)
    ELSE IF v.marshaler.err # Nil
    THEN Result(w, ErrorfWW(ErrFailed, v.marshaler.err), <<>>)
    ELSE LET r == Write(w, v.marshaler.data)
         IN Result(r.w,
                   IF r.err # Nil THEN ErrorfWW(ErrFailed, r.err) ELSE Nil,
                   <<>>)

\* what the encoding library of the handler h writes for v, with or without
\* indentation: the encoders are outside the package, and their bytes are
\* stood for by the name of the encoder, the indentation and the type of v
Encode(h, indent, v) ==
    <<h.kind>> \o (IF indent THEN <<"indent">> ELSE <<>>) \o TypeName(v)

\* JSON.Render, XML.Render and YAML.Render (indent FALSE), JSON.RenderPretty
\* and XML.RenderPretty (indent TRUE): the encoder writes to w, and its
\* error is wrapped with ErrFailed
EncoderRender(h, indent, w, v) ==
    LET r == Write(w, Encode(h, indent, v))
    IN Result(r.w, IF r.err # Nil THEN ErrorfWW(ErrFailed, r.err) ELSE Nil,
              <<>>)

RECURSIVE HandlerRender(_, _, _)
RECURSIVE HandlerRenderPretty(_, _, _)
RECURSIVE MultiRenderFrom(_, _, _, _, _)
RECURSIVE MultiRenderPrettyFrom(_, _, _, _, _)
RECURSIVE MultiRenderFromTryAll(_, _, _, _, _)
RECURSIVE MultiRenderFromRollback(_, _, _, _, _)
RECURSIVE MultiRenderPrettyFromSkipFailed(_, _, _, _, _)
RECURSIVE MultiRenderFromRetry(_, _, _, _, _)
RECURSIVE MultiRenderPrettyFromPlain(_, _, _, _, _)

\* faulty variant: a success is noted and the loop goes on to the later handlers
MultiRenderFromTryAll(hs, i, w, v, calls) ==
    IF i > Len(hs)
    THEN Result(w, CannotRender(v), calls)
    ELSE LET r == HandlerRender(hs[i], w, v)
             cs == calls \o <<Call(hs[i], i, "Render", w, r)>> \o r.calls
             rest == MultiRenderFromTryAll(hs, i + 1, r.w, v, cs)
         IN IF r.err = Nil THEN Result(rest.w, Nil, rest.calls)
            ELSE IF ~Is(r.err, ErrCannotRender) THEN Result(r.w, r.err, cs)
            ELSE rest

\* faulty variant: what a rejecting handler wrote is dropped before the next one is
\* tried
MultiRenderFromRollback(hs, i, w, v, calls) ==
    IF i > Len(hs)
    THEN Result(w, CannotRender(v), calls)
    ELSE LET r == HandlerRender(hs[i], w, v)
             cs == calls \o <<Call(hs[i], i, "Render", w, r)>> \o r.calls
         IN IF r.err = Nil THEN Result(r.w, Nil, cs)
            ELSE IF ~Is(r.err, ErrCannotRender) THEN Result(r.w, r.err, cs)
            ELSE MultiRenderFromRollback(hs, i + 1, w, v, cs)

\* faulty variant: every error, not only ErrCannotRender, moves on to the next
\* handler
MultiRenderPrettyFromSkipFailed(hs, i, w, v, calls) ==
    IF i > Len(hs)
    THEN Result(w, CannotRender(v), calls)
    ELSE LET ok == IsPrettyHandler(hs[i])
             r == IF ok THEN HandlerRenderPretty(hs[i], w, v)
                        ELSE HandlerRender(hs[i], w, v)
             m == IF ok THEN "RenderPretty" ELSE "Render"
             cs == calls \o <<Call(hs[i], i, m, w, r)>> \o r.calls
         IN IF r.err = Nil THEN Result(r.w, Nil, cs)
            ELSE MultiRenderPrettyFromSkipFailed(hs, i + 1, r.w, v, cs)

\* faulty variant: a handler that fails is given a second try
MultiRenderFromRetry(hs, i, w, v, calls) ==
    IF i > Len(hs)
    THEN Result(w, CannotRender(v), calls)
    ELSE LET r == HandlerRender(hs[i], w, v)
             cs == calls \o <<Call(hs[i], i, "Render", w, r)>> \o r.calls
         IN IF r.err = Nil THEN Result(r.w, Nil, cs)
            ELSE IF ~Is(r.err, ErrCannotRender)
            THEN LET r2 == HandlerRender(hs[i], r.w, v)
                 IN Result(r2.w, r2.err,
                           cs \o <<Call(hs[i], i, "Render", r.w, r2)>>
                              \o r2.calls)
            ELSE MultiRenderFromRetry(hs, i + 1, r.w, v, cs)

\* Multi.Render, the loop from index i on; calls holds the invocations made
\* by the earlier iterations
MultiRenderFrom(hs, i, w, v, calls) ==
    IF i > Len(hs)
    THEN Result(w, CannotRender(v), calls)
    ELSE LET r == HandlerRender(hs[i], w, v)
             cs == calls \o <<Call(hs[i], i, "Render", w, r)>> \o r.calls
         IN IF r.err = Nil THEN Result(r.w, Nil, cs)
            ELSE IF ~Is(r.err, ErrCannotRender) THEN Result(r.w, r.err, cs)
            ELSE MultiRenderFrom(hs, i + 1, r.w, v, cs)

\* Multi.Render
MultiRender(h, w, v) == MultiRenderFrom(h.Handlers, 1, w, v, <<>>)

\* faulty variant: the plain Render of every handler, also of one that has
\* RenderPretty
MultiRenderPrettyFromPlain(hs, i, w, v, calls) ==
    IF i > Len(hs)
    THEN Result(w, CannotRender(v), calls)
    ELSE LET r == HandlerRender(hs[i], w, v)
             cs == calls \o <<Call(hs[i], i, "Render", w, r)>> \o r.calls
         IN IF r.err = Nil THEN Result(r.w, Nil, cs)
            ELSE IF ~Is(r.err, ErrCannotRender) THEN Result(r.w, r.err, cs)
            ELSE MultiRenderPrettyFromPlain(hs, i + 1, r.w, v, cs)

\* Multi.RenderPretty, the loop from index i on
MultiRenderPrettyFrom(hs, i, w, v, calls) ==
    IF i > Len(hs)
    THEN Result(w, CannotRender(v), calls)
    ELSE LET ok == IsPrettyHandler(hs[i])
             r == IF ok THEN HandlerRenderPretty(hs[i], w, v)
                        ELSE HandlerRender(hs[i], w, v)
             m == IF ok THEN "RenderPretty" ELSE "Render"
             cs == calls \o <<Call(hs[i], i, m, w, r)>> \o r.calls
         IN IF r.err = Nil THEN Result(r.w, Nil, cs)
            ELSE IF ~Is(r.err, ErrCannotRender) THEN Result(r.w, r.err, cs)
            ELSE MultiRenderPrettyFrom(hs, i + 1, r.w, v, cs)

\* Multi.RenderPretty
MultiRenderPretty(h, w, v) == MultiRenderPrettyFrom(h.Handlers, 1, w, v, <<>>)

\* handler.Render(w, v): dynamic dispatch on the concrete type
HandlerRender(h, w, v) ==
    IF h.kind = "Multi" THEN MultiRender(h, w, v)
    ELSE IF h.kind = "Text" THEN TextRender(w, v)
    ELSE IF h.kind \in {"JSON", "XML", "YAML"}
    THEN EncoderRender(h, FALSE, w, v)
    ELSE IF h.kind = "Binary" THEN BinaryRender(w, v)
    ELSE MockRender(h, w, v)

\* prettyHandler.RenderPretty(w, v): dynamic dispatch on the concrete type
HandlerRenderPretty(h, w, v) ==
    IF h.kind = "Multi" THEN MultiRenderPretty(h, w, v)
    ELSE IF h.kind \in {"JSON", "XML"} THEN EncoderRender(h, TRUE, w, v)
    ELSE MockRenderPretty(h, w, v)

----------------------------------------------------------------------------
(* Renderer                                                                *)

\* faulty variant: the lookup without strings.ToLower
HasHandlerExact(hm, format) == format \in DOMAIN hm

\* r.Handlers[strings.ToLower(format)], the "ok" of the lookup
HasHandler(hm, format) == ToLower(format) \in DOMAIN hm

\* r.Handlers[strings.ToLower(format)]
Lookup(hm, format) == hm[ToLower(format)]

\* faulty variant: the error names the normalised format, not the one requested
UnsupportedFormatLower(format) ==
    ErrorfWS(ErrUnsupportedFormat, ToLower(format))

\* fmt.Errorf("%w: %s", ErrUnsupportedFormat, format)
UnsupportedFormat(format) == ErrorfWS(ErrUnsupportedFormat, format)

\* faulty variant: RenderPretty whenever the handler has it, whatever the flag
UsePrettyIgnoringFlag(handler, pretty) == IsPrettyHandler(handler)

\* Renderer.Render, the choice between RenderPretty and Render
UsePretty(handler, pretty) == pretty /\ IsPrettyHandler(handler)

\* Renderer.Render, the invocation of the handler found
Dispatch(handler, w, pretty, v) ==
    LET up == UsePretty(handler, pretty)
        r == IF up THEN HandlerRenderPretty(handler, w, v)
                   ELSE HandlerRender(handler, w, v)
        m == IF up THEN "RenderPretty" ELSE "Render"
    IN Result(r.w, r.err, <<Call(handler, 0, m, w, r)>> \o r.calls)

\* faulty variant: ErrCannotRender is not told apart from other errors
ClassifyCannotRenderAsFailed(err, format) ==
    IF err # Nil
    THEN IF ~Is(err, ErrFailed) THEN ErrorfWW(ErrFailed, err) ELSE err
    ELSE Nil

\* faulty variant: every error is wrapped with ErrFailed, also one that is already
ClassifyAlwaysWrap(err, format) ==
    IF err # Nil
    THEN IF Is(err, ErrCannotRender) THEN UnsupportedFormat(format)
         ELSE ErrorfWW(ErrFailed, err)
    ELSE Nil

\* faulty variant: the handler's error is returned as it came
ClassifyPassThrough(err, format) == err

\* Renderer.Render, the classification of the handler's error
Classify(err, format) ==
    IF err # Nil
    THEN IF Is(err, ErrCannotRender) THEN UnsupportedFormat(format)
         ELSE IF ~Is(err, ErrFailed) THEN ErrorfWW(ErrFailed, err)
         ELSE err
    ELSE Nil

\* Renderer.Render, what it returns once the handler (result r) has been called
Classified(r, format) == Result(r.w, Classify(r.err, format), r.calls)

\* Renderer.Render
RendererRender(hm, w, format, pretty, v) ==
    IF ~HasHandler(hm, format)
    THEN Result(w, UnsupportedFormat(format), <<>>)
    ELSE Classified(Dispatch(Lookup(hm, format), w, pretty, v), format)

\* Renderer.Compact
RendererCompact(hm, w, format, v) == RendererRender(hm, w, format, FALSE, v)

\* faulty variant: Pretty leaves the flag unset
RendererPrettyUnset(hm, w, format, v) == RendererRender(hm, w, format, FALSE, v)

\* Renderer.Pretty
RendererPretty(hm, w, format, v) == RendererRender(hm, w, format, TRUE, v)

\* The frame of a Render call in flight: where it stands (pc), its
\* arguments, the Handlers of the Renderer when it was entered (r0, kept
\* for reference), and its locals handler and err with the writer (res).
Frame(hm, w, format, pretty, v) ==
    [pc |-> "lookup", format |-> format, pretty |-> pretty, v |-> v,
     w0 |-> w, r0 |-> hm, handler |-> None, res |-> Result(w, Nil, <<>>)]

\* faulty variant: the lookup remembers the handler found under the format
\* as it was spelled
RenderStepCaching(hm, c) ==
    CASE c.pc = "lookup" ->
           IF ~HasHandler(hm, c.format)
           THEN [hm |-> hm,
                 c |-> [c EXCEPT !.pc = "done",
                                 !.res = Result(c.w0, UnsupportedFormat(c.format),
                                                <<>>)]]
           ELSE [hm |-> [x \in DOMAIN hm \cup {c.format} |->
                            IF x = c.format THEN Lookup(hm, c.format)
                            ELSE hm[x]],
                 c |-> [c EXCEPT !.pc = "invoke",
                                 !.handler = Lookup(hm, c.format)]]
      [] c.pc = "invoke" ->
           [hm |-> hm,
            c |-> [c EXCEPT !.pc = "classify",
                            !.res = Dispatch(c.handler, c.w0, c.pretty, c.v)]]
      [] c.pc = "classify" ->
           [hm |-> hm,
            c |-> [c EXCEPT !.pc = "done",
                            !.res = Result(c.res.w,
                                           Classify(c.res.err, c.format),
                                           c.res.calls)]]

\* Renderer.Render, one step of the call with the frame c on the Renderer
\* whose Handlers are hm: the Handlers and the frame after it.  The steps
\* are the lookup in r.Handlers, the invocation of the handler found and
\* the classification of its error; none assigns to r.Handlers.
RenderStep(hm, c) ==
    CASE c.pc = "lookup" ->
           [hm |-> hm,
            c |-> IF ~HasHandler(hm, c.format)
                  THEN [c EXCEPT !.pc = "done",
                                 !.res = Result(c.w0, UnsupportedFormat(c.format),
                                                <<>>)]
                  ELSE [c EXCEPT !.pc = "invoke",
                                 !.handler = Lookup(hm, c.format)]]
      [] c.pc = "invoke" ->
           [hm |-> hm,
            c |-> [c EXCEPT !.pc = "classify",
                            !.res = Dispatch(c.handler, c.w0, c.pretty, c.v)]]
      [] c.pc = "classify" ->
           [hm |-> hm,
            c |-> [c EXCEPT !.pc = "done",
                            !.res = Result(c.res.w,
                                           Classify(c.res.err, c.format),
                                           c.res.calls)]]

\* faulty variant: a key that is taken keeps the handler it has
MapSetIfAbsent(hm, k, h) ==
    [x \in DOMAIN hm \cup {k} |-> IF x \in DOMAIN hm THEN hm[x] ELSE h]

\* the map hm with hm[k] = h
MapSet(hm, k, h) ==
    [x \in DOMAIN hm \cup {k} |-> IF x = k THEN h ELSE hm[x]]

\* faulty variant: a declared format is stored as spelled, and an empty
\* one too
RECURSIVE AddFormatsAsSpelled(_, _, _, _, _)
AddFormatsAsSpelled(hm, fs, i, format, handler) ==
    IF i > Len(fs) THEN hm
    ELSE AddFormatsAsSpelled(
            IF fs[i] # format THEN MapSet(hm, fs[i], handler) ELSE hm,
            fs, i + 1, format, handler)

\* Renderer.Add, the loop over x.Formats() from index i on
RECURSIVE AddFormats(_, _, _, _, _)
AddFormats(hm, fs, i, format, handler) ==
    IF i > Len(fs) THEN hm
    ELSE AddFormats(
            IF fs[i] # <<>> /\ fs[i] # format
            THEN MapSet(hm, ToLower(fs[i]), handler) ELSE hm,
            fs, i + 1, format, handler)

\* handler.(FormatsHandler) and x.Formats(); every handler type of the
\* model implements FormatsHandler.  The Multi values registered here hold
\* only handlers that declare no formats, so their Formats() is empty too.
Formats(h) == h.formats

\* faulty variant: only the explicit format is stored, the declared formats
\* are not
RendererAddFormatOnly(hm, format, handler) ==
    IF format # <<>> THEN MapSet(hm, ToLower(format), handler) ELSE hm

\* faulty variant: the handler that held the format is taken out first,
\* with every name it is held under
RendererAddDroppingOld(hm, format, handler) ==
    LET k == ToLower(format)
        old == IF k \in DOMAIN hm THEN {x \in DOMAIN hm : hm[x] = hm[k]}
               ELSE {}
        kept == [x \in DOMAIN hm \ old |-> hm[x]]
        hm1 == IF format # <<>> THEN MapSet(kept, k, handler) ELSE kept
    IN AddFormats(hm1, Formats(handler), 1, format, handler)

\* Renderer.Add
RendererAdd(hm, format, handler) ==
    LET hm1 == IF format # <<>> THEN MapSet(hm, ToLower(format), handler)
               ELSE hm
    IN AddFormats(hm1, Formats(handler), 1, format, handler)

\* make(map[string]Handler)
EmptyMap == [x \in {} |-> Nil]

\* the orders in which a range over a map with the keys ks can visit them
RECURSIVE Orders(_)
Orders(ks) ==
    IF ks = {} THEN {<<>>}
    ELSE UNION {{<<k>> \o o : o \in Orders(ks \ {k})} : k \in ks}

\* New, the loop over the handlers map visiting its keys in the order ks
RECURSIVE NewFrom(_, _, _, _)
NewFrom(hm, handlers, ks, i) ==
    IF i > Len(ks) THEN hm
    ELSE NewFrom(RendererAdd(hm, ks[i], handlers[ks[i]]), handlers, ks, i + 1)

\* New: the Handlers maps it can return, one per iteration order
New(handlers) ==
    {NewFrom(EmptyMap, handlers, ks, 1) : ks \in Orders(DOMAIN handlers)}

\* faulty variant: the requested name is looked up as spelled
RECURSIVE NewWithFromExact(_, _, _, _)
NewWithFromExact(hm, formats, i, handlers) ==
    IF i > Len(formats) THEN handlers
    ELSE NewWithFromExact(hm, formats, i + 1,
                          IF HasHandlerExact(hm, formats[i])
                          THEN MapSet(handlers, formats[i], hm[formats[i]])
                          ELSE handlers)

\* the elements of the sequence s
Range(s) == {s[i] : i \in 1..Len(s)}

\* Multi.Formats, the keys of the formats map after the loop over
\* mr.Handlers: the names the contained handlers return from Formats(),
\* those of a contained Multi being the names of its own formats map
RECURSIVE FormatKeys(_)
FormatKeys(h) ==
    IF h.kind = "Multi"
    THEN UNION {FormatKeys(h.Handlers[i]) :
                   i \in {j \in 1..Len(h.Handlers) :
                              IsFormatsHandler(h.Handlers[j])}}
    ELSE Range(h.formats)

\* faulty variant: the names are appended to the result as they come, the
\* repeated ones too
RECURSIVE MultiFormatsAppendAll(_)
MultiFormatsAppendAll(h) ==
    LET RECURSIVE Cat(_, _)
        Cat(hs, i) ==
            IF i > Len(hs) THEN <<>>
            ELSE (IF hs[i].kind = "Multi"
                  THEN CHOOSE fs \in MultiFormatsAppendAll(hs[i]) : TRUE
                  ELSE hs[i].formats) \o Cat(hs, i + 1)
    IN {Cat(h.Handlers, 1)}

\* Multi.Formats: the lists it can return, one per order in which the
\* range over the formats map can visit its keys
MultiFormats(h) == Orders(FormatKeys(h))

\* NewWith, the loop over formats from index i on; handlers is the map
\* handed to New
RECURSIVE NewWithFrom(_, _, _, _)
NewWithFrom(hm, formats, i, handlers) ==
    IF i > Len(formats) THEN handlers
    ELSE NewWithFrom(hm, formats, i + 1,
                     IF HasHandler(hm, formats[i])
                     THEN MapSet(handlers, formats[i], Lookup(hm, formats[i]))
                     ELSE handlers)

\* faulty variant: the handlers found are copied under the lower-cased
\* requested names, and nothing else is registered
RendererNewWithKeysOnly(hm, formats) ==
    {[k \in {ToLower(formats[i]) :
                i \in {j \in 1..Len(formats) : HasHandler(hm, formats[j])}}
        |-> hm[k]]}

\* Renderer.NewWith: the Handlers maps the Renderer it returns can have
RendererNewWith(hm, formats) == New(NewWithFrom(hm, formats, 1, EmptyMap))

\* Base: the Handlers it can have
Base ==
    New([f \in {<<"b", "i", "n", "a", "r", "y">>, <<"j", "s", "o", "n">>,
                <<"t", "e", "x", "t">>, <<"x", "m", "l">>,
                <<"y", "a", "m", "l">>}
           |-> CASE f = <<"b", "i", "n", "a", "r", "y">> -> BinaryHandler
                 [] f = <<"j", "s", "o", "n">> -> JSONHandler
                 [] f = <<"t", "e", "x", "t">> -> TextHandler
                 [] f = <<"x", "m", "l">> -> XMLHandler
                 [] f = <<"y", "a", "m", "l">> -> YAMLHandler])

\* faulty variant: the default renderer is Base itself
DefaultAllOfBase == Base

\* Default: the Handlers it can have
Default ==
    UNION {RendererNewWith(b, <<<<"j", "s", "o", "n">>, <<"t", "e", "x", "t">>,
                               <<"y", "a", "m", "l">>>>) : b \in Base}

\* no Renderer
NoRenderer == [map |-> "none"]

\* A Renderer other than r: its Handlers field refers to a map of its own
\* (map "own", that map being Handlers) or to the very map that r.Handlers
\* refers to (map "source")
OwnMap(hm) == [map |-> "own", Handlers |-> hm]

\* the Handlers of the Renderer d, where src is the map of r
HandlersOf(d, src) == IF d.map = "source" THEN src ELSE d.Handlers

\* faulty variant: the names not asked for are taken out of r.Handlers and
\* the Renderer returned shares that map
RendererNewWithSharing(hm, formats) ==
    {[r |-> m, d |-> [map |-> "source"]] : m \in RendererNewWith(hm, formats)}

\* Renderer.NewWith with the maps involved: r.Handlers after the call (it is
\* only read) and the Renderer returned, whose Handlers is the map that New
\* makes
RendererNewWithFresh(hm, formats) ==
    {[r |-> hm, d |-> OwnMap(m)] : m \in RendererNewWith(hm, formats)}

----------------------------------------------------------------------------
(* Inputs                                                                  *)

\* errors a handler can be configured to return
MockError == ErrorsNew("mock error", "mock error")
CannotRenderMock ==
    [id |-> "cannot render mock",
     msg |-> ErrCannotRender.msg \o <<": ", "mock">>,
     chain |-> {"cannot render mock"} \cup ErrCannotRender.chain]
FailedMock ==
    [id |-> "failed mock",
     msg |-> ErrFailed.msg \o <<": ", "mock">>,
     chain |-> {"failed mock"} \cup ErrFailed.chain]
\* an operation failure whose cause is a capability mismatch further down:
\* fmt.Errorf("%w: %w", ErrFailed, ErrCannotRender)
FailedCannotRender ==
    [id |-> "failed cannot render",
     msg |-> ErrFailed.msg \o <<": ">> \o ErrCannotRender.msg,
     chain |-> {"failed cannot render"} \cup ErrFailed.chain
                  \cup ErrCannotRender.chain]

MockErrs ==
    {Nil, ErrCannotRender, CannotRenderMock, MockError, FailedMock,
     FailedCannotRender}

Outputs == {<<>>, <<"x">>, <<"y">>}

\* the pretty output of a mockPrettyHandler whose plain output is o
PrettyOf(o) == <<"p">> \o o

\* mock handlers declaring no formats, one per output and error
Mocks(outs, errs) ==
    {mockHandler(o, <<>>, e) : o \in outs, e \in errs}
    \cup {mockPrettyHandler(o, PrettyOf(o), <<>>, e) : o \in outs, e \in errs}

\* the handlers a Multi under direct test is built from
MultiElems == Mocks(Outputs, {Nil, CannotRenderMock, MockError})

\* the handlers registered in the Renderer whose Render is under test
RenderHandlers ==
    Mocks({<<>>, <<"x">>}, MockErrs)
    \cup {Multi(hs) : hs \in SeqsUpTo(Mocks({<<"x">>}, {Nil, CannotRenderMock, MockError}), 2)}

\* the handlers handed to Add, with the formats they declare
RegHandlers ==
    {mockHandler(<<"x">>, <<>>, Nil),
     mockPrettyHandler(<<"y">>, PrettyOf(<<"y">>), <<<<"a">>, <<"b">>>>, Nil),
     mockHandler(<<"z">>, <<<<"A", "b">>, <<>>, <<"B">>>>, CannotRenderMock)}

\* the values of the concrete types of the type switch
BasicValues ==
    {TextValue("[]uint8", "bytes", d, None, None, None, None) :
        d \in {<<>>, <<"a", "b">>}}
    \cup {TextValue("[]int32", "runes", d, None, None, None, None) :
        d \in {<<"r">>, <<"r", "U+00E9">>}}
    \cup {TextValue("string", "string", <<"s", "t">>, None, None, None, None)}
    \cup {TextValue("int", "scalar", n, None, None, None, None) :
        n \in {0, 42, 0 - 7}}
    \cup {TextValue("uint8", "scalar", 255, None, None, None, None)}
    \cup {TextValue("bool", "scalar", b, None, None, None, None) :
        b \in BOOLEAN}

\* the values of a type with any of the methods Read, WriteTo, String and
\* Error.  Each method gives bytes of its own, so that the bytes written
\* tell which method produced them.  Read and WriteTo fail with an error
\* of the value's own making: ErrCannotRender is for handlers to return
\* ("Only Renderer implementations should return this error").
MethodValues ==
    {TextValue("*mock", "other", <<>>, rd, wt, st, er) :
        rd \in {None} \cup {[value |-> x, err |-> e] :
                                x \in {<<>>, <<"r">>}, e \in {Nil, ReadError}},
        wt \in {None} \cup {[value |-> <<"w">>, err |-> e] :
                                e \in {Nil, WriteToError}},
        st \in {None, [value |-> <<"s">>]},
        er \in {None, [value |-> <<"e">>]}}
    \ {TextValue("*mock", "other", <<>>, None, None, None, None)}

\* struct{}{}, a channel and untyped nil
PlainValues ==
    {TextValue(t, "other", <<>>, None, None, None, None) :
        t \in {"struct {}", "chan int", "<nil>"}}

TextValues == BasicValues \cup MethodValues \cup PlainValues

\* the lists of the Multis that hold a Text handler
TextMultis ==
    {<<TextHandler>>,
     <<TextHandler, mockHandler(<<"y">>, <<>>, Nil)>>,
     <<mockHandler(<<"x">>, <<>>, CannotRenderMock), TextHandler,
       mockHandler(<<"y">>, <<>>, Nil)>>}

\* the handlers of the Multis whose Formats() is asked for: without a
\* Formats method, with none, two and three names, names shared between
\* handlers and repeated within one, and a Multi
FormatsElems ==
    {bareHandler(<<"x">>, Nil),
     mockHandler(<<"x">>, <<>>, Nil),
     mockHandler(<<"x">>, <<<<"a">>, <<"b">>>>, Nil),
     mockHandler(<<"x">>, <<<<"b">>, <<"A">>, <<"b">>>>, Nil),
     Multi(<<mockHandler(<<"x">>, <<<<"a", "b">>, <<"a">>>>, Nil)>>)}

\* the handlers of the Multi whose invocations are counted
CallElems == Mocks({<<"x">>}, {Nil, CannotRenderMock, MockError})

\* the handlers of the Renderer that goroutines render with at the same
\* time: every kind of outcome, and a handler with aliases
GoHandlers ==
    Mocks({<<"x">>}, {Nil, CannotRenderMock, MockError, FailedMock})
    \cup {mockPrettyHandler(<<"y">>, PrettyOf(<<"y">>), <<<<"a">>, <<"b">>>>,
                            Nil)}

\* the formats they ask for
GoFormats == {<<"a">>, <<"B">>}

MarshalError == ErrorsNew("marshal error", "marshal error!!1")

\* the values Binary is tested with: a mockBinaryMarshaler that works, one
\* that fails, and struct{}{}
BinaryValues ==
    {[type |-> "*mockBinaryMarshaler",
      marshaler |-> [data |-> <<"b">>, err |-> e]] : e \in {Nil, MarshalError}}
    \cup {[type |-> "struct {}", marshaler |-> None]}

\* the formats asked of the package-level functions: those of the built-in
\* handlers and one that no handler has
PkgFormats ==
    {<<"j", "s", "o", "n">>, <<"t", "e", "x", "t">>, <<"t", "x", "t">>,
     <<"p", "l", "a", "i", "n">>, <<"y", "a", "m", "l">>, <<"y", "m", "l">>,
     <<"x", "m", "l">>, <<"b", "i", "n", "a", "r", "y">>, <<"b", "i", "n">>,
     <<"t", "o", "m", "l">>}

\* the values given to them: a string, a Stringer and struct{}{}
PkgValues ==
    {TextValue("string", "string", <<"s", "t">>, None, None, None, None),
     TextValue("*mock", "other", <<>>, None, None, [value |-> <<"s">>], None),
     TextValue("struct {}", "other", <<>>, None, None, None, None)}

\* the keys of the maps handed to New: distinct after lower-casing
NewKeys == {<<"a">>, <<"b">>, <<"A", "b">>}

\* the maps handed to New
NewInputs == UNION {[K -> RegHandlers] : K \in SUBSET NewKeys}

\* the spellings the registry tests register under: none, lower case,
\* upper case and mixed case
AddNames == SeqsUpTo(Chars, 1) \cup {<<"A", "b">>}

\* the names asked of NewWith
ReqNames == {<<"a">>, <<"B">>, <<"A", "b">>}

----------------------------------------------------------------------------
(* State machine                                                           *)

Goroutines == 1..MaxGo

\* a goroutine that is in no Render call
Idle == [pc |-> "idle"]

NoneRunning == [g \in Goroutines |-> Idle]

NoCall == [op |-> "none"]

\* the record of a render call: its inputs, the writer it was given and
\* the Result
Rendered(op, format, pretty, v, w0, res) ==
    [op |-> op, format |-> format, pretty |-> pretty, v |-> v, w0 |-> w0,
     res |-> res]

\* r.Add(format, handler) with format drawn from names; keep tells whether
\* the call is appended to the history
DoAdd(names, keep) ==
    /\ last = NoCall
    /\ adds < MaxAdds
    /\ \E format \in names, handler \in RegHandlers :
          /\ Handlers' = RendererAdd(Handlers, format, handler)
          /\ last' = [op |-> "Add", format |-> format, handler |-> handler]
          /\ log' = IF keep
                    THEN Append(log, [format |-> format, handler |-> handler])
                    ELSE log
    /\ adds' = adds + 1
    /\ UNCHANGED <<mr, running, derived>>

\* r.Add(format, handler)
CallAdd == DoAdd(Names, FALSE)

\* r.Add(format, handler) under the spellings of the registry tests
CallAddSpelled == DoAdd(AddNames, FALSE)

\* r.Add(format, handler) with the spellings of the registry tests, the
\* calls being remembered in order
CallAddLogged == DoAdd(AddNames, TRUE)

\* r = r.NewWith(formats...): the caller goes on with the restricted
\* Renderer; the record keeps the Handlers of the Renderer it was made from
CallNewWith ==
    /\ last = NoCall
    /\ \E formats \in SeqsUpTo(ReqNames, MaxReq) :
          \E hm \in RendererNewWith(Handlers, formats) :
              /\ Handlers' = hm
              /\ last' = [op |-> "NewWith", formats |-> formats,
                          r |-> Handlers]
    /\ UNCHANGED <<adds, mr, log, running, derived>>

\* r = New(handlers): the caller goes on with the new Renderer
CallNew ==
    /\ last = NoCall
    /\ \E handlers \in NewInputs :
          \E hm \in New(handlers) :
              /\ Handlers' = hm
              /\ last' = [op |-> "New", handlers |-> handlers]
    /\ UNCHANGED <<adds, mr, log, running, derived>>

\* d := r.NewWith(formats...): the caller keeps r and the Renderer made
\* from it (one such Renderer is followed)
CallDerive ==
    /\ last = NoCall
    /\ derived = NoRenderer
    /\ \E formats \in SeqsUpTo(ReqNames, MaxReq) :
          \E res \in RendererNewWithFresh(Handlers, formats) :
              /\ Handlers' = res.r
              /\ derived' = res.d
              /\ last' = [op |-> "NewWith", formats |-> formats,
                          r |-> Handlers]
    /\ UNCHANGED <<adds, mr, log, running>>

\* d.Add(format, handler) on the Renderer made by NewWith: the assignments
\* of Add go to the map d.Handlers refers to
CallAddDerived ==
    /\ last = NoCall
    /\ derived # NoRenderer
    /\ adds < MaxAdds
    /\ \E format \in AddNames, handler \in RegHandlers :
          LET hm == RendererAdd(HandlersOf(derived, Handlers), format, handler)
          IN /\ Handlers' = IF derived.map = "source" THEN hm ELSE Handlers
             /\ derived' = IF derived.map = "source" THEN derived
                           ELSE OwnMap(hm)
             /\ last' = [op |-> "d.Add", format |-> format,
                         handler |-> handler]
    /\ adds' = adds + 1
    /\ UNCHANGED <<mr, log, running>>

\* r.Render(w, format, pretty, v) on a fresh writer, v and w drawn from
\* vs and ws
DoRender(vs, ws) ==
    /\ last = NoCall
    /\ \E format \in Names, pretty \in BOOLEAN, v \in vs, w \in ws :
          last' = Rendered("Render", format, pretty, v, w,
                           RendererRender(Handlers, w, format, pretty, v))
    /\ UNCHANGED <<Handlers, adds, mr, log, running, derived>>

\* r.Render with any value, and a writer that works or one that fails
CallRender == DoRender(Values, Writers)

\* r.Render as the registry tests call it: struct{}{} into a bytes.Buffer
CallRenderBuffer == DoRender({[type |-> "struct {}"]}, {NewWriter(Nil)})

\* r.Compact(w, format, v) on a fresh writer
CallCompact ==
    /\ last = NoCall
    /\ \E format \in Names, v \in Values, w \in Writers :
          last' = Rendered("Compact", format, FALSE, v, w,
                           RendererCompact(Handlers, w, format, v))
    /\ UNCHANGED <<Handlers, adds, mr, log, running, derived>>

\* r.Pretty(w, format, v) on a fresh writer
CallPretty ==
    /\ last = NoCall
    /\ \E format \in Names, v \in Values, w \in Writers :
          last' = Rendered("Pretty", format, TRUE, v, w,
                           RendererPretty(Handlers, w, format, v))
    /\ UNCHANGED <<Handlers, adds, mr, log, running, derived>>

\* (&Multi{Handlers: mr}).Render(w, v) on a fresh writer, v drawn from vs
DoMultiRender(vs) ==
    /\ last = NoCall
    /\ \E v \in vs, w \in Writers :
          last' = Rendered("Multi.Render", <<>>, FALSE, v, w,
                           MultiRender(Multi(mr), w, v))
    /\ UNCHANGED <<Handlers, adds, mr, log, running, derived>>

\* Multi.Render on the values the mock handlers are tested with
CallMultiRender == DoMultiRender(Values)

\* Multi.Render on the values Text is tested with
CallMultiRenderText == DoMultiRender(TextValues)

\* r.Render on the values Text is tested with
CallRenderText == DoRender(TextValues, Writers)

\* the value v after a call whose invocations were calls: the Text handler
\* has read it when it took the io.Reader case
ValueAfter(v, calls) ==
    IF \E i \in 1..Len(calls) : calls[i].m = "io.Reader"
    THEN AfterIoCopy(v) ELSE v

\* r.Render(w, format, pretty, v) once more after a Render call: the same
\* Renderer, format, flag and value, the value being as the first call left
\* it, on a writer like the first; the record keeps the first call
CallRenderAgain ==
    /\ last.op = "Render"
    /\ LET v == ValueAfter(last.v, last.res.calls)
       IN last' = [op |-> "RenderAgain", first |-> last, v |-> v,
                   res |-> RendererRender(Handlers, last.w0, last.format,
                                          last.pretty, v)]
    /\ UNCHANGED <<Handlers, adds, mr, log, running, derived>>

\* (&Multi{Handlers: mr}).Formats()
CallMultiFormats ==
    /\ last = NoCall
    /\ \E fs \in MultiFormats(Multi(mr)) :
          last' = [op |-> "Multi.Formats", res |-> fs]
    /\ UNCHANGED <<Handlers, adds, mr, log, running, derived>>

\* (&Text{}).Render(w, v) on a fresh writer
CallTextRender ==
    /\ last = NoCall
    /\ \E v \in TextValues, w \in Writers :
          last' = Rendered("Text.Render", <<>>, FALSE, v, w, TextRender(w, v))
    /\ UNCHANGED <<Handlers, adds, mr, log, running, derived>>

\* (&Binary{}).Render(w, v) on a fresh writer
CallBinaryRender ==
    /\ last = NoCall
    /\ \E v \in BinaryValues, w \in Writers :
          last' = Rendered("Binary.Render", <<>>, FALSE, v, w,
                           BinaryRender(w, v))
    /\ UNCHANGED <<Handlers, adds, mr, log, running, derived>>

\* (&Multi{Handlers: mr}).RenderPretty(w, v) on a fresh writer
CallMultiRenderPretty ==
    /\ last = NoCall
    /\ \E v \in Values, w \in Writers :
          last' = Rendered("Multi.RenderPretty", <<>>, TRUE, v, w,
                           MultiRenderPretty(Multi(mr), w, v))
    /\ UNCHANGED <<Handlers, adds, mr, log, running, derived>>

\* go r.Render(w, format, pretty, v): the goroutine g enters Render with a
\* writer of its own
GoRender(g) ==
    /\ last = NoCall
    /\ running[g] = Idle
    /\ \E format \in GoFormats, pretty \in BOOLEAN, w \in Writers :
          running' = [running EXCEPT
                         ![g] = Frame(Handlers, w, format, pretty,
                                      [type |-> "struct {}"])]
    /\ UNCHANGED <<Handlers, adds, mr, log, derived, last>>

\* the goroutine g takes the next step of its Render call
StepRender(g) ==
    /\ running[g].pc \in {"lookup", "invoke", "classify"}
    /\ LET s == RenderStep(Handlers, running[g])
       IN /\ Handlers' = s.hm
          /\ running' = [running EXCEPT ![g] = s.c]
    /\ UNCHANGED <<adds, mr, log, derived, last>>

\* the Render call of the goroutine g has returned and g ends
EndRender(g) ==
    /\ running[g].pc = "done"
    /\ running' = [running EXCEPT ![g] = Idle]
    /\ UNCHANGED <<Handlers, adds, mr, log, derived, last>>

\* render.Render(w, format, pretty, v): Default.Render on a fresh writer
CallPkgRender ==
    /\ last = NoCall
    /\ \E format \in PkgFormats, pretty \in BOOLEAN, v \in PkgValues,
          w \in Writers :
          last' = Rendered("Render", format, pretty, v, w,
                           RendererRender(Handlers, w, format, pretty, v))
    /\ UNCHANGED <<Handlers, adds, mr, log, running, derived>>

\* render.Compact(w, format, v): Default.Compact on a fresh writer
CallPkgCompact ==
    /\ last = NoCall
    /\ \E format \in PkgFormats, v \in PkgValues, w \in Writers :
          last' = Rendered("Compact", format, FALSE, v, w,
                           RendererCompact(Handlers, w, format, v))
    /\ UNCHANGED <<Handlers, adds, mr, log, running, derived>>

\* render.Pretty(w, format, v): Default.Pretty on a fresh writer
CallPkgPretty ==
    /\ last = NoCall
    /\ \E format \in PkgFormats, v \in PkgValues, w \in Writers :
          last' = Rendered("Pretty", format, TRUE, v, w,
                           RendererPretty(Handlers, w, format, v))
    /\ UNCHANGED <<Handlers, adds, mr, log, running, derived>>

\* the caller is done with a finished call: its writer and its error, locals
\* of the caller, go out of scope
Discard ==
    /\ last # NoCall
    /\ last' = NoCall
    /\ UNCHANGED <<Handlers, adds, mr, log, running, derived>>

\* a Renderer with an empty Handlers map, grown by Add and rendered with
Init ==
    /\ Handlers = EmptyMap
    /\ adds = 0
    /\ mr = <<>>
    /\ log = <<>>
    /\ running = NoneRunning
    /\ derived = NoRenderer
    /\ last = NoCall

Next == CallAdd \/ CallRenderBuffer \/ Discard

Spec == Init /\ [][Next]_vars

\* a Renderer made by New from one format and one handler of any behaviour
InitRender ==
    /\ \E format \in Names \ {<<>>}, handler \in RenderHandlers :
          Handlers \in New([f \in {format} |-> handler])
    /\ adds = 0
    /\ mr = <<>>
    /\ log = <<>>
    /\ running = NoneRunning
    /\ derived = NoRenderer
    /\ last = NoCall

NextRender == CallRender \/ CallCompact \/ CallPretty \/ Discard

SpecRender == InitRender /\ [][NextRender]_vars

\* a Renderer grown by Add, restricted by NewWith and rendered with
NextNewWith == CallAddSpelled \/ CallNewWith \/ CallRenderBuffer \/ Discard

SpecNewWith == Init /\ [][NextNewWith]_vars

\* a Text handler on its own, in a Multi, and registered in a Renderer
InitText ==
    /\ Handlers \in New([f \in {<<"a">>} |-> TextHandler])
    /\ adds = 0
    /\ mr \in TextMultis
    /\ log = <<>>
    /\ running = NoneRunning
    /\ derived = NoRenderer
    /\ last = NoCall

NextText == CallTextRender \/ CallMultiRenderText \/ CallRenderText \/ Discard

SpecText == InitText /\ [][NextText]_vars

\* a Renderer with the Text handler, rendering a value and then the same
\* value again
NextAgain == CallRenderText \/ CallRenderAgain \/ Discard

SpecAgain == InitText /\ [][NextAgain]_vars

\* a Multi over a list of mock handlers, and a Renderer made by New with the
\* Multi under "a" and the first handler of the list under "b"
InitCalls ==
    /\ mr \in SeqsUpTo(CallElems, MaxHandlers)
    /\ Handlers \in New([f \in {<<"a">>} \cup {<<"b">> : i \in 1..Len(mr)}
                           |-> IF f = <<"a">> THEN Multi(mr) ELSE mr[1]])
    /\ adds = 0
    /\ log = <<>>
    /\ running = NoneRunning
    /\ derived = NoRenderer
    /\ last = NoCall

NextCalls ==
    CallRender \/ CallMultiRender \/ CallMultiRenderPretty \/ Discard

SpecCalls == InitCalls /\ [][NextCalls]_vars

\* a Renderer made by New from one handler, rendered with by goroutines at
\* the same time
InitGo ==
    /\ \E handler \in GoHandlers :
          Handlers \in New([f \in {<<"a">>} |-> handler])
    /\ adds = 0
    /\ mr = <<>>
    /\ log = <<>>
    /\ running = NoneRunning
    /\ derived = NoRenderer
    /\ last = NoCall

NextGo == \E g \in Goroutines : GoRender(g) \/ StepRender(g) \/ EndRender(g)

SpecGo == InitGo /\ [][NextGo]_vars

\* every operation of the package that returns an error, on a Multi over
\* mock handlers, a Renderer holding it, and the Text and Binary handlers
NextErr ==
    \/ CallRender \/ CallCompact \/ CallPretty
    \/ CallMultiRender \/ CallMultiRenderPretty
    \/ CallTextRender \/ CallBinaryRender
    \/ Discard

SpecErr == InitCalls /\ [][NextErr]_vars

\* the package-level functions on the Default renderer
InitDefault ==
    /\ Handlers \in Default
    /\ adds = 0
    /\ mr = <<>>
    /\ log = <<>>
    /\ running = NoneRunning
    /\ derived = NoRenderer
    /\ last = NoCall

NextDefault == CallPkgRender \/ CallPkgCompact \/ CallPkgPretty \/ Discard

SpecDefault == InitDefault /\ [][NextDefault]_vars

\* Renderers made by New and rendered with
NextNew == CallNew \/ CallRenderBuffer \/ Discard

SpecNew == Init /\ [][NextNew]_vars

\* a Renderer grown by Add, a Renderer made from it by NewWith, and Add
\* calls on either
NextDerive == CallAddSpelled \/ CallDerive \/ CallAddDerived \/ Discard

SpecDerive == Init /\ [][NextDerive]_vars

\* a Multi over handlers that declare formats, asked for its Formats()
InitFormats ==
    /\ Handlers = EmptyMap
    /\ adds = 0
    /\ mr \in SeqsUpTo(FormatsElems, MaxHandlers)
    /\ log = <<>>
    /\ running = NoneRunning
    /\ derived = NoRenderer
    /\ last = NoCall

NextFormats == CallMultiFormats \/ Discard

SpecFormats == InitFormats /\ [][NextFormats]_vars

\* a Renderer grown by Add calls that are remembered
NextAdd == CallAddLogged \/ Discard

SpecAdd == Init /\ [][NextAdd]_vars

\* a Multi over any list of mock handlers
InitMulti ==
    /\ Handlers = EmptyMap
    /\ adds = 0
    /\ mr \in SeqsUpTo(MultiElems, MaxHandlers)
    /\ log = <<>>
    /\ running = NoneRunning
    /\ derived = NoRenderer
    /\ last = NoCall

NextMulti == CallMultiRender \/ CallMultiRenderPretty \/ Discard

SpecMulti == InitMulti /\ [][NextMulti]_vars

----------------------------------------------------------------------------
(* Properties of Renderer.Render                                           *)

IsRenderCall == last.op \in {"Render", "Compact", "Pretty"}

\* the text "render: unsupported format: <format>"
UnsupportedFormatMsg(format) ==
    <<"render", ": ", "unsupported format", ": ">> \o format

\* the error the handler found by the lookup returned to Renderer.Render
HandlerErr == last.res.calls[1].err

\* C1: when the handler that Render looked up returns an error matching
\* ErrCannotRender, Render returns an error that matches
\* ErrUnsupportedFormat, reads "render: unsupported format: <format>" with
\* the format as passed, and equals the error a Renderer without any handler
\* returns for that name.
C1_CannotRenderIsUnsupportedFormat ==
    (IsRenderCall /\ last.res.calls # <<>> /\ Is(HandlerErr, ErrCannotRender))
    => /\ Is(last.res.err, ErrUnsupportedFormat)
       /\ last.res.err.msg = UnsupportedFormatMsg(last.format)
       /\ last.res.err.chain = {"anon", "ErrUnsupportedFormat", "Err"}
       /\ last.res.err =
             RendererRender(EmptyMap, last.w0, last.format, last.pretty,
                            last.v).err

\* a handler registered under "a" wrote its output and rejected the value,
\* and the request spelled the format "A"
C1_Witness ==
    /\ IsRenderCall
    /\ last.format = <<"A">>
    /\ last.res.calls # <<>>
    /\ HandlerErr = CannotRenderMock
    /\ last.res.w.buf = <<"x">>
    /\ last.res.err.msg = <<"render", ": ", "unsupported format", ": ", "A">>

\* C2: Render with a format whose lower-cased form is no key of Handlers
\* returns an error matching ErrUnsupportedFormat that names the format as
\* passed, invokes no handler and leaves the writer as it was.
C2_UnregisteredFormat ==
    (IsRenderCall /\ ToLower(last.format) \notin DOMAIN Handlers)
    => /\ Is(last.res.err, ErrUnsupportedFormat)
       /\ last.res.err.msg = UnsupportedFormatMsg(last.format)
       /\ last.res.calls = <<>>
       /\ last.res.w = last.w0

\* a Renderer with the keys "a" and "b" asked for "Ab"
C2_Witness ==
    /\ IsRenderCall
    /\ DOMAIN Handlers = {<<"a">>, <<"b">>}
    /\ last.format = <<"A", "b">>
    /\ last.res.err.msg =
          <<"render", ": ", "unsupported format", ": ", "A", "b">>
    /\ last.res.calls = <<>>

\* C3: a handler error that does not match ErrCannotRender comes back
\* matching ErrFailed and still wrapping the handler's error: unchanged when
\* it already matches ErrFailed, else as "render: failed: <its message>";
\* nil from the handler comes back as nil.
C3_FailureWrappedOnce ==
    (IsRenderCall /\ last.res.calls # <<>>)
    => /\ HandlerErr = Nil => last.res.err = Nil
       /\ (HandlerErr # Nil /\ ~Is(HandlerErr, ErrCannotRender))
          => /\ Is(last.res.err, ErrFailed)
             /\ Is(last.res.err, HandlerErr)
             /\ Is(HandlerErr, ErrFailed) => last.res.err = HandlerErr
             /\ ~Is(HandlerErr, ErrFailed)
                => last.res.err.msg =
                      <<"render", ": ", "failed", ": ">> \o HandlerErr.msg

\* the handler returned errors.New("mock error")
C3_Witness ==
    /\ IsRenderCall
    /\ last.res.calls # <<>>
    /\ HandlerErr = MockError
    /\ last.res.err.msg = <<"render", ": ", "failed", ": ", "mock error">>
    /\ Is(last.res.err, MockError)

\* C4: a non-nil error of Render, Compact or Pretty never matches
\* ErrCannotRender and always matches ErrUnsupportedFormat or ErrFailed.
C4_NoCannotRenderToCaller ==
    (IsRenderCall /\ last.res.err # Nil)
    => /\ ~Is(last.res.err, ErrCannotRender)
       /\ Is(last.res.err, ErrUnsupportedFormat) \/ Is(last.res.err, ErrFailed)

\* a registered Multi tried two handlers, both rejected the value, and the
\* caller got an unsupported-format error
C4_Witness ==
    /\ IsRenderCall
    /\ Len(last.res.calls) = 3
    /\ last.res.calls[1].h.kind = "Multi"
    /\ Is(HandlerErr, ErrCannotRender)
    /\ Is(last.res.err, ErrUnsupportedFormat)
    /\ ~Is(last.res.err, ErrCannotRender)

\* C5: Render calls RenderPretty only when pretty is set and the handler has
\* RenderPretty, else Render.  For a handler without RenderPretty the pretty
\* call gives the writer contents and error of the compact call; a
\* mockPrettyHandler writes its prettyOutput when pretty is set and its plain
\* output when not.
C5_PrettyOnlyWhenAskedAndAble ==
    (IsRenderCall /\ ToLower(last.format) \in DOMAIN Handlers)
    => LET h == Handlers[ToLower(last.format)]
           c == last.res.calls[1]
           compact == RendererCompact(Handlers, last.w0, last.format, last.v)
       IN /\ c.h = h
          /\ c.m = IF last.pretty /\ h.kind \in {"mockPrettyHandler", "Multi"}
                   THEN "RenderPretty" ELSE "Render"
          /\ (h.kind = "mockHandler" /\ last.pretty)
             => /\ last.res.w = compact.w
                /\ last.res.err = compact.err
                /\ last.res.w.buf \in {<<>>, h.output}
          /\ (h.kind = "mockPrettyHandler" /\ last.w0.WriteErr = Nil)
             => last.res.w.buf =
                   IF last.pretty THEN h.prettyOutput ELSE h.output

\* pretty output asked of a handler that has no RenderPretty
C5_Witness ==
    /\ IsRenderCall
    /\ last.pretty
    /\ last.res.calls # <<>>
    /\ last.res.calls[1].h.kind = "mockHandler"
    /\ last.res.calls[1].m = "Render"
    /\ last.res.w.buf = <<"x">>
    /\ last.res.err = Nil

\* C6: on a Renderer built by Add, Render with any spelling of a registered
\* name invokes the handler stored under the lower-case name, and makes the
\* invocations and leaves the writer as Render with the lower-case name.
C6_CaseInsensitiveLookup ==
    (IsRenderCall /\ ToLower(last.format) \in DOMAIN Handlers)
    => LET canon == RendererRender(Handlers, last.w0, ToLower(last.format),
                                   last.pretty, last.v)
       IN /\ last.res.calls # <<>>
          /\ last.res.calls[1].h = Handlers[ToLower(last.format)]
          /\ last.res.calls = canon.calls
          /\ last.res.w = canon.w

\* "Ab" resolves to the handler that two Adds left under "ab"
C6_Witness ==
    /\ IsRenderCall
    /\ adds = 2
    /\ last.format = <<"A", "b">>
    /\ last.res.calls # <<>>
    /\ last.res.calls[1].h = Handlers[<<"a", "b">>]
    /\ last.res.err = Nil

----------------------------------------------------------------------------
(* Properties of Multi.Render and Multi.RenderPretty                       *)

IsMultiCall == last.op \in {"Multi.Render", "Multi.RenderPretty"}

\* the handlers before index k of the Multi all return an error matching
\* ErrCannotRender
RejectBefore(k) == \A j \in 1..(k - 1) : Is(mr[j].err, ErrCannotRender)

\* the bytes the mock handler h writes when a Multi call of kind op reaches
\* it, as its fields say
Wrote(h, op) ==
    IF op = "Multi.RenderPretty" /\ h.kind = "mockPrettyHandler"
    THEN h.prettyOutput ELSE h.output

\* the bytes of the first n handlers of the Multi, in list order
RECURSIVE WroteUpTo(_, _)
WroteUpTo(n, op) ==
    IF n = 0 THEN <<>> ELSE WroteUpTo(n - 1, op) \o Wrote(mr[n], op)

\* C7: the invocations follow the list order, and a handler that returns
\* nil is the last one invoked and makes the call return nil: with the
\* first k-1 handlers rejecting and the k-th succeeding, exactly k handlers
\* are invoked.
C7_ShortCircuitOnSuccess ==
    IsMultiCall
    => LET calls == last.res.calls
       IN /\ Len(calls) <= Len(mr)
          /\ \A j \in 1..Len(calls) : calls[j].i = j /\ calls[j].h = mr[j]
          /\ \A j \in 1..Len(calls) :
                calls[j].err = Nil => j = Len(calls) /\ last.res.err = Nil
          /\ \A k \in 1..Len(mr) :
                (mr[k].err = Nil /\ last.w0.WriteErr = Nil /\ RejectBefore(k))
                => last.res.err = Nil /\ Len(calls) = k

\* [A(cannot render), B(success "x"), C(success "y")]: "x" is written and C
\* is not invoked
C7_Witness ==
    /\ last.op = "Multi.Render"
    /\ Len(mr) = 3
    /\ mr[1] = mockHandler(<<>>, <<>>, CannotRenderMock)
    /\ mr[2] = mockHandler(<<"x">>, <<>>, Nil)
    /\ mr[3] = mockHandler(<<"y">>, <<>>, Nil)
    /\ last.res.err = Nil
    /\ last.res.w.buf = <<"x">>
    /\ Len(last.res.calls) = 2

\* C8: a handler error that does not match ErrCannotRender is the result of
\* the call, unchanged, and its handler is the last one invoked.
C8_FailureEndsCall ==
    IsMultiCall
    => LET calls == last.res.calls
       IN /\ \A j \in 1..Len(calls) :
                (calls[j].err # Nil /\ ~Is(calls[j].err, ErrCannotRender))
                => j = Len(calls) /\ last.res.err = calls[j].err
          /\ \A k \in 1..Len(mr) :
                (mr[k].err # Nil /\ ~Is(mr[k].err, ErrCannotRender)
                 /\ RejectBefore(k))
                => last.res.err = mr[k].err /\ Len(calls) = k

\* [A(cannot render), B(fails "mock error"), C(success)] under RenderPretty
C8_Witness ==
    /\ last.op = "Multi.RenderPretty"
    /\ Len(mr) = 3
    /\ Is(mr[1].err, ErrCannotRender)
    /\ mr[2].err = MockError
    /\ mr[3].err = Nil
    /\ last.w0.WriteErr = Nil
    /\ last.res.err = MockError
    /\ last.res.err.msg = <<"mock error">>
    /\ Len(last.res.calls) = 2

\* C9: after a handler error matching ErrCannotRender the next handler of
\* the list is invoked; when every handler rejects, and when the list is
\* empty, all were invoked and the call returns an error matching
\* ErrCannotRender that reads "render: cannot render: <type of the value>".
C9_CannotRenderAdvances ==
    IsMultiCall
    => LET calls == last.res.calls
       IN /\ \A j \in 1..Len(calls) :
                (Is(calls[j].err, ErrCannotRender) /\ j < Len(mr))
                => Len(calls) > j /\ calls[j + 1].h = mr[j + 1]
                                 /\ calls[j + 1].i = j + 1
          /\ RejectBefore(Len(mr) + 1)
             => /\ Len(calls) = Len(mr)
                /\ Is(last.res.err, ErrCannotRender)
                /\ last.res.err.msg =
                      <<"render", ": ", "cannot render", ": ", last.v.type>>

\* two rejecting handlers and the value "test"
C9_Witness ==
    /\ IsMultiCall
    /\ Len(mr) = 2
    /\ RejectBefore(3)
    /\ Len(last.res.calls) = 2
    /\ last.res.err.msg = <<"render", ": ", "cannot render", ": ", "string">>

\* C10 as stated: after a successful call at most one handler has written,
\* and the writer holds exactly the bytes of the handler that succeeded.
C10_OnlySuccessfulHandlerWrote ==
    (IsMultiCall /\ last.res.err = Nil)
    => LET calls == last.res.calls
       IN /\ Cardinality({j \in 1..Len(calls) : calls[j].out # <<>>}) <= 1
          /\ last.res.w.buf = calls[Len(calls)].out

\* C10, amended: after a successful call the writer holds the bytes of the
\* handlers invoked, in list order, the rejecting ones first and the one
\* that succeeded last, and nothing of a later handler; it holds exactly
\* the bytes of the handler that succeeded when the rejecting ones wrote
\* nothing.
C10_WriterHoldsInvokedHandlersOutput ==
    (IsMultiCall /\ last.res.err = Nil)
    => LET calls == last.res.calls
           n == Len(calls)
       IN /\ n >= 1 /\ n <= Len(mr)
          /\ calls[n].err = Nil
          /\ \A j \in 1..(n - 1) : Is(calls[j].err, ErrCannotRender)
          /\ last.res.w.buf = WroteUpTo(n, last.op)
          /\ (\A j \in 1..(n - 1) : Wrote(mr[j], last.op) = <<>>)
             => last.res.w.buf = Wrote(mr[n], last.op)

\* a handler wrote "x" and rejected, the next wrote "y" and succeeded
C10_Witness ==
    /\ last.op = "Multi.Render"
    /\ Len(mr) = 2
    /\ mr[1] = mockHandler(<<"x">>, <<>>, CannotRenderMock)
    /\ mr[2] = mockHandler(<<"y">>, <<>>, Nil)
    /\ last.res.err = Nil
    /\ last.res.w.buf = <<"x", "y">>

\* C11: Multi.RenderPretty invokes RenderPretty on a handler that has it and
\* Render on one that has not, invokes the handlers Multi.Render invokes on
\* the same list and returns the error Multi.Render returns; on success
\* with a working writer the handler that accepted wrote its prettyOutput
\* when it has RenderPretty and its plain output when it has not.
C11_PrettyPerHandler ==
    last.op = "Multi.RenderPretty"
    => LET calls == last.res.calls
           n == Len(calls)
           plain == MultiRender(Multi(mr), last.w0, last.v)
       IN /\ \A j \in 1..n :
                calls[j].m = IF mr[j].kind = "mockPrettyHandler"
                             THEN "RenderPretty" ELSE "Render"
          /\ n = Len(plain.calls)
          /\ \A j \in 1..n : calls[j].h = plain.calls[j].h
                              /\ calls[j].err = plain.calls[j].err
          /\ last.res.err = plain.err
          /\ (last.res.err = Nil /\ last.w0.WriteErr = Nil)
             => calls[n].out = IF mr[n].kind = "mockPrettyHandler"
                               THEN mr[n].prettyOutput ELSE mr[n].output

\* [plain(cannot render), pretty-capable(success "x"), plain(success "y")]
\* under RenderPretty: the second handler's pretty output is written
C11_Witness ==
    /\ last.op = "Multi.RenderPretty"
    /\ Len(mr) = 3
    /\ mr[1] = mockHandler(<<>>, <<>>, CannotRenderMock)
    /\ mr[2] = mockPrettyHandler(<<"x">>, <<"p", "x">>, <<>>, Nil)
    /\ mr[3] = mockHandler(<<"y">>, <<>>, Nil)
    /\ last.res.err = Nil
    /\ last.res.calls[1].m = "Render"
    /\ last.res.calls[2].m = "RenderPretty"
    /\ last.res.w.buf = <<"p", "x">>

----------------------------------------------------------------------------
(* Properties of the registry: Add, New and NewWith                        *)

\* in the map hm every spelling of the name resolves to the handler h
ResolvesTo(hm, name, h) == HasHandler(hm, name) /\ Lookup(hm, name) = h

\* in the map hm the format, when not empty, and every non-empty format the
\* handler h declares resolve to h
FormatAndAliasesResolve(hm, format, h) ==
    /\ format # <<>> => ResolvesTo(hm, format, h)
    /\ \A i \in 1..Len(Formats(h)) :
          Formats(h)[i] # <<>> => ResolvesTo(hm, Formats(h)[i], h)

\* C12: right after r.Add(format, h) the lower-cased format and the
\* lower-cased form of every non-empty format h declares are keys that hold
\* h, whether or not format is among the declared ones; the same holds in
\* the Renderer New makes from the one pair format: h.
C12_AddRegistersFormatAndAliases ==
    last.op = "Add"
    => /\ FormatAndAliasesResolve(Handlers, last.format, last.handler)
       /\ \A hm \in New([f \in {last.format} |-> last.handler]) :
             FormatAndAliasesResolve(hm, last.format, last.handler)

\* the handler declaring "a" and "b" was added under "Ab", after another
\* handler had been added: "ab", "a" and "b" hold it
C12_Witness ==
    /\ last.op = "Add"
    /\ adds = 2
    /\ last.format = <<"A", "b">>
    /\ Formats(last.handler) = <<<<"a">>, <<"b">>>>
    /\ Handlers[<<"a", "b">>] = last.handler
    /\ Handlers[<<"a">>] = last.handler
    /\ Handlers[<<"b">>] = last.handler

\* the lower-cased non-empty formats the handler h declares
Declared(h) ==
    {ToLower(Formats(h)[i]) :
        i \in {j \in 1..Len(Formats(h)) : Formats(h)[j] # <<>>}}

\* the requested names that the Renderer NewWith was called on resolves
Found == {last.formats[i] :
             i \in {j \in 1..Len(last.formats) :
                        HasHandler(last.r, last.formats[j])}}

\* the handlers the requested names resolve to
Selected == {Lookup(last.r, n) : n \in Found}

\* C13 as stated: the keys of the Renderer NewWith returns are the
\* requested names that were registered, lower-cased, and no others.
C13_OnlyRequestedKeys ==
    last.op = "NewWith" => DOMAIN Handlers = {ToLower(n) : n \in Found}

\* C13, amended: the keys of the Renderer NewWith returns are the requested
\* registered names, lower-cased, and the lower-cased non-empty formats
\* that the handlers they resolve to declare.  Every key holds one of these
\* handlers, one that was requested under it or declares it, and a
\* requested name that no other selected handler declares holds the handler
\* it held before.
C13_RequestedKeysAndTheirAliases ==
    last.op = "NewWith"
    => /\ DOMAIN Handlers =
             {ToLower(n) : n \in Found} \cup UNION {Declared(h) : h \in Selected}
       /\ \A k \in DOMAIN Handlers :
             /\ Handlers[k] \in Selected
             /\ \/ k \in Declared(Handlers[k])
                \/ \E n \in Found : /\ ToLower(n) = k
                                    /\ Lookup(last.r, n) = Handlers[k]
       /\ \A n \in Found :
             (\A h \in Selected \ {Lookup(last.r, n)} :
                 ToLower(n) \notin Declared(h))
             => Handlers[ToLower(n)] = Lookup(last.r, n)

\* the handler declaring "a" and "b" was registered under "a"; NewWith("B")
\* returns a Renderer that holds it under "b" and under "a"
C13_Witness ==
    /\ last.op = "NewWith"
    /\ last.formats = <<<<"B">>>>
    /\ DOMAIN last.r = {<<"a">>, <<"b">>}
    /\ Formats(last.r[<<"a">>]) = <<<<"a">>, <<"b">>>>
    /\ last.r[<<"b">>] = last.r[<<"a">>]
    /\ DOMAIN Handlers = {<<"a">>, <<"b">>}
    /\ Handlers[<<"a">>] = last.r[<<"a">>]
    /\ Handlers[<<"b">>] = last.r[<<"a">>]

\* the sequence s without the elements that occur earlier in it
RECURSIVE Dedup(_)
Dedup(s) ==
    IF s = <<>> THEN <<>>
    ELSE LET d == Dedup(SubSeq(s, 1, Len(s) - 1))
             x == s[Len(s)]
         IN IF \E i \in 1..Len(d) : d[i] = x THEN d ELSE Append(d, x)

\* C14: NewWith always returns a Renderer.  A requested name whose
\* lower-cased form is registered is a key of it, lower-cased; the Renderers
\* it can return are those it can return for the lower-cased names, for the
\* names without the unregistered ones and for the names without
\* repetitions.  When no requested name is registered the mapping is empty
\* and Render with any format, flag, value and writer returns an error
\* matching ErrUnsupportedFormat without touching the writer.
C14_NewWithNeverFails ==
    last.op = "NewWith"
    => LET r == last.r
           fs == last.formats
           out == RendererNewWith(r, fs)
           Registered(n) == ToLower(n) \in DOMAIN r
       IN /\ out # {}
          /\ Handlers \in out
          /\ \A i \in 1..Len(fs) :
                Registered(fs[i]) => ToLower(fs[i]) \in DOMAIN Handlers
          /\ out = RendererNewWith(r, [i \in 1..Len(fs) |-> ToLower(fs[i])])
          /\ out = RendererNewWith(r, SelectSeq(fs, Registered))
          /\ out = RendererNewWith(r, Dedup(fs))
          /\ (\A i \in 1..Len(fs) : ~Registered(fs[i]))
             => /\ Handlers = EmptyMap
                /\ \A format \in Names, pretty \in BOOLEAN, v \in Values,
                      w \in Writers :
                      LET res == RendererRender(Handlers, w, format, pretty, v)
                      IN /\ Is(res.err, ErrUnsupportedFormat)
                         /\ res.calls = <<>>
                         /\ res.w = w

\* NewWith("B", "Ab") on a Renderer that has "a" and "b" and not "ab": the
\* result has the one key "b"
C14_Witness ==
    /\ last.op = "NewWith"
    /\ last.formats = <<<<"B">>, <<"A", "b">>>>
    /\ DOMAIN last.r = {<<"a">>, <<"b">>}
    /\ Formats(last.r[<<"b">>]) = <<>>
    /\ DOMAIN Handlers = {<<"b">>}
    /\ Handlers[<<"b">>] = last.r[<<"b">>]

\* the Add call c stores its handler under the key k: k is the lower-cased
\* format of the call or the lower-cased form of a format its handler
\* declares
Registers(c, k) ==
    \/ c.format # <<>> /\ ToLower(c.format) = k
    \/ k \in Declared(c.handler)

\* the indexes of the remembered Add calls that store under the key k
Registering(k) == {i \in 1..Len(log) : Registers(log[i], k)}

\* the greatest element of a non-empty set of numbers
Max(S) == CHOOSE x \in S : \A y \in S : y <= x

\* C15: after any sequence of Add calls on an empty Renderer, a name in any
\* spelling resolves to the handler of the latest call that stored under
\* its lower-cased form, as the explicit format or as a declared format of
\* the handler, and to nothing when no call did; two spellings of a name
\* never resolve to different handlers.
C15_LastRegistrationWins ==
    \A n \in Names :
        LET k == ToLower(n)
        IN /\ IF Registering(k) = {}
              THEN ~HasHandler(Handlers, n)
              ELSE ResolvesTo(Handlers, n, log[Max(Registering(k))].handler)
           /\ HasHandler(Handlers, n) => Lookup(Handlers, n) = Handlers[k]

\* Add("Ab", h) with h declaring "a" and "b", then Add("A", g): "a" holds
\* g, "ab" and "b" still hold h
C15_Witness ==
    /\ Len(log) = 2
    /\ log[1].format = <<"A", "b">>
    /\ Formats(log[1].handler) = <<<<"a">>, <<"b">>>>
    /\ log[2].format = <<"A">>
    /\ Formats(log[2].handler) = <<>>
    /\ Handlers[<<"a">>] = log[2].handler
    /\ Handlers[<<"b">>] = log[1].handler
    /\ Handlers[<<"a", "b">>] = log[1].handler

\* every key of the map hm is lower-case and not empty
KeysLowerNonEmpty(hm) == \A k \in DOMAIN hm : k # <<>> /\ k = ToLower(k)

\* C16: in every Renderer that Add and NewWith (which builds its result
\* with New) lead to, every key of Handlers is lower-case and not empty,
\* whatever the spelling of the formats and of the declared formats.  Add
\* with the empty format stores nothing under the empty name and stores
\* the handler under each of its non-empty declared formats, lower-cased.
C16_KeysLowerCaseNonEmpty ==
    /\ KeysLowerNonEmpty(Handlers)
    /\ last.op = "NewWith" => KeysLowerNonEmpty(last.r)
    /\ (last.op = "Add" /\ last.format = <<>>)
       => /\ <<>> \notin DOMAIN Handlers
          /\ \A k \in Declared(last.handler) : Handlers[k] = last.handler

\* Add("", h) with h declaring "Ab", "" and "B": the keys are "ab" and "b"
C16_Witness ==
    /\ last.op = "Add"
    /\ last.format = <<>>
    /\ Formats(last.handler) = <<<<"A", "b">>, <<>>, <<"B">>>>
    /\ DOMAIN Handlers = {<<"a", "b">>, <<"b">>}
    /\ Handlers[<<"b">>] = last.handler

----------------------------------------------------------------------------
(* Properties of Text.Render                                               *)

\* the cases of the type switch, in the order of the claimed precedence
Precedence ==
    <<"[]byte", "[]rune", "string", "scalar", "io.Reader", "io.WriterTo",
      "fmt.Stringer", "error">>

\* the value v has the representation named c
Satisfies(v, c) ==
    CASE c = "[]byte" -> v.kind = "bytes"
      [] c = "[]rune" -> v.kind = "runes"
      [] c = "string" -> v.kind = "string"
      [] c = "scalar" -> v.kind = "scalar"
      [] c = "io.Reader" -> v.reader # None
      [] c = "io.WriterTo" -> v.writerTo # None
      [] c = "fmt.Stringer" -> v.stringer # None
      [] c = "error" -> v.error # None

\* the places in Precedence of the representations v has
Satisfied(v) == {i \in 1..Len(Precedence) : Satisfies(v, Precedence[i])}

\* the least element of a non-empty set of numbers
Min(S) == CHOOSE x \in S : \A y \in S : x <= y

ResolvedText ==
    /\ last.op = "Render"
    /\ HasHandler(Handlers, last.format)
    /\ Lookup(Handlers, last.format) = TextHandler

CaseFailed(c) == c.i = 0 /\ c.h \in TextValues /\ c.err # Nil

----------------------------------------------------------------------------
(* Properties of Multi.Formats                                             *)

\* the names of the handlers hs from index i on, in list order: those a
\* handler with Formats() returns, in the order it returns them, those of
\* a contained Multi in the same order
RECURSIVE NamesInListOrder(_, _)
NamesInListOrder(hs, i) ==
    IF i > Len(hs) THEN <<>>
    ELSE (IF hs[i].kind = "Multi" THEN NamesInListOrder(hs[i].Handlers, 1)
          ELSE hs[i].formats) \o NamesInListOrder(hs, i + 1)

\* C20 as stated: Multi.Formats() returns the names of the handlers in
\* first-seen order, each once.
C20_FirstSeenOrder ==
    last.op = "Multi.Formats" => last.res = Dedup(NamesInListOrder(mr, 1))

\* C20, amended: Multi.Formats() returns every name some contained handler
\* returns from Formats(), each once and no other name, in an order that
\* need not be that of the list; it is empty when no handler returns a
\* name.
C20_UnionWithoutRepetition ==
    last.op = "Multi.Formats"
    => /\ Range(last.res) = Range(NamesInListOrder(mr, 1))
       /\ \A i, j \in 1..Len(last.res) : last.res[i] = last.res[j] => i = j
       /\ (\A i \in 1..Len(mr) : mr[i].kind \in {"bareHandler", "mockHandler"}
                                  /\ mr[i].formats = <<>>)
          => last.res = <<>>

\* the one handler returns "a", "b" and Multi.Formats() returns "b", "a"
C20_Witness ==
    /\ last.op = "Multi.Formats"
    /\ Len(mr) = 2
    /\ mr[1].kind = "bareHandler"
    /\ mr[2].formats = <<<<"a">>, <<"b">>>>
    /\ last.res = <<<<"b">>, <<"a">>>>

----------------------------------------------------------------------------
(* Properties of rendering a value twice                                   *)

\* the first of the two calls made the Text handler read from the value's
\* Read: the format is registered and the value takes the io.Reader case
\* without a WriteTo for io.Copy to use, its Read works and has bytes to
\* deliver
ReadByFirst ==
    LET f == last.first
    IN /\ HasHandler(Handlers, f.format)
       /\ Lookup(Handlers, f.format) = TextHandler
       /\ TextBranch(f.v) = "io.Reader"
       /\ f.v.writerTo = None
       /\ f.v.reader.err = Nil
       /\ f.v.reader.value # <<>>

\* C21 as stated: rendering the same value twice through the same Renderer,
\* format and flag writes the same bytes and returns the same result, for
\* every value the Text handler accepts.
C21_SameTwice ==
    last.op = "RenderAgain"
    => /\ last.res.w.buf = last.first.res.w.buf
       /\ last.res.err = last.first.res.err

\* C21, amended: the second call writes the same bytes and returns the same
\* result as the first unless the first call read the value through Read.
\* Such a value is used up: the first call wrote its bytes, or failed
\* writing them, and the second call takes the io.Reader case again, writes
\* nothing and returns nil.
C21_SameTwiceUnlessRead ==
    last.op = "RenderAgain"
    => LET f == last.first
       IN /\ ~ReadByFirst
             => /\ last.v = f.v
                /\ last.res.w.buf = f.res.w.buf
                /\ last.res.err = f.res.err
          /\ ReadByFirst
             => /\ \/ f.res.err = Nil /\ f.res.w.buf = f.v.reader.value
                   \/ Is(f.res.err, ErrFailed) /\ f.res.w.buf = <<>>
                /\ last.res.calls[2].m = "io.Reader"
                /\ last.res.w.buf = <<>>
                /\ last.res.err = Nil

\* a reader holding "r" was rendered twice: "r" the first time, nothing
\* the second
C21_Witness ==
    /\ last.op = "RenderAgain"
    /\ last.first.v.reader # None
    /\ last.first.res.w.buf = <<"r">>
    /\ last.first.res.err = Nil
    /\ last.res.w.buf = <<>>
    /\ last.res.err = Nil

----------------------------------------------------------------------------
(* Properties of the invocations made by one call                          *)

\* the invocations calls are those of one pass over the list hs: the k-th
\* is of the k-th handler, by RenderPretty when pretty output is asked for
\* and the handler has it and by Render otherwise; every one but the last
\* rejected the value, and the pass went on to the end of the list unless
\* the last one rendered the value or failed
OnePass(calls, hs, pretty) ==
    /\ Len(calls) <= Len(hs)
    /\ \A k \in 1..Len(calls) :
          /\ calls[k].i = k
          /\ calls[k].h = hs[k]
          /\ calls[k].m = IF pretty /\ IsPrettyHandler(hs[k])
                          THEN "RenderPretty" ELSE "Render"
    /\ \A k \in 1..(Len(calls) - 1) : Is(calls[k].err, ErrCannotRender)
    /\ Len(calls) < Len(hs) => ~Is(calls[Len(calls)].err, ErrCannotRender)

\* C22: a Renderer.Render call with a registered format invokes one method
\* of the handler found, once: RenderPretty when the flag is set and the
\* handler has it, Render otherwise.  A Multi.Render or Multi.RenderPretty
\* call, made directly or by the Renderer, invokes the handlers of its list
\* in one pass, each place of the list at most once and in list order, and
\* nothing after a handler that rendered the value or failed.
C22_NoRetries ==
    /\ (IsRenderCall /\ HasHandler(Handlers, last.format))
       => LET h == Lookup(Handlers, last.format)
              calls == last.res.calls
              up == last.pretty /\ IsPrettyHandler(h)
          IN /\ calls # <<>>
             /\ calls[1].i = 0
             /\ calls[1].h = h
             /\ calls[1].m = IF up THEN "RenderPretty" ELSE "Render"
             /\ \A k \in 2..Len(calls) : calls[k].i # 0
             /\ OnePass(Tail(calls), h.Handlers, up)
    /\ last.op = "Multi.Render" => OnePass(last.res.calls, mr, FALSE)
    /\ last.op = "Multi.RenderPretty" => OnePass(last.res.calls, mr, TRUE)

\* Render under "a" found a Multi of three handlers: the first rejected the
\* value, the second failed, the third was not invoked
C22_Witness ==
    /\ last.op = "Render"
    /\ last.format = <<"a">>
    /\ Len(mr) = 3
    /\ Len(last.res.calls) = 3
    /\ last.res.calls[1].h = Multi(mr)
    /\ last.res.calls[2].err = CannotRenderMock
    /\ last.res.calls[3].err = MockError
    /\ Is(last.res.err, ErrFailed)

----------------------------------------------------------------------------
(* Properties of Render calls made at the same time                        *)

\* C23: while goroutines are in Render calls on the same Renderer, in every
\* interleaving of their steps, the Handlers of the Renderer stay as they
\* were when the calls were entered; every call has found the handler it
\* finds when run alone, and returns the error, the writer and the
\* invocations that the call run alone returns.
C23_ConcurrentRenderSafe ==
    \A g \in Goroutines :
        LET c == running[g]
            alone == RendererRender(c.r0, c.w0, c.format, c.pretty, c.v)
        IN c # Idle
           => /\ Handlers = c.r0
              /\ c.pc \in {"invoke", "classify"}
                 => /\ HasHandler(c.r0, c.format)
                    /\ c.handler = Lookup(c.r0, c.format)
              /\ c.pc = "done" => c.res = alone

\* two calls are in flight, one for "a" and one for "B": the one has found
\* its handler, the handler of the other has written its pretty output and
\* its error is yet to be classified
C23_Witness ==
    /\ running[1].pc = "invoke"
    /\ running[1].format = <<"a">>
    /\ running[2].pc = "classify"
    /\ running[2].format = <<"B">>
    /\ running[2].res.err = Nil
    /\ running[2].pretty
    /\ running[2].res.w.buf = <<"p", "y">>

----------------------------------------------------------------------------
(* Properties of the errors returned                                       *)

IsHandlerCall == last.op \in {"Text.Render", "Binary.Render"}

----------------------------------------------------------------------------
(* Properties of the Default renderer                                      *)

\* the handler that serves the name k in the default renderer
DefaultServes(k) ==
    CASE k = <<"j", "s", "o", "n">> -> JSONHandler
      [] k \in {<<"t", "e", "x", "t">>, <<"t", "x", "t">>,
                <<"p", "l", "a", "i", "n">>} -> TextHandler
      [] k \in {<<"y", "a", "m", "l">>, <<"y", "m", "l">>} -> YAMLHandler

DefaultNames ==
    {<<"j", "s", "o", "n">>, <<"t", "e", "x", "t">>, <<"t", "x", "t">>,
     <<"p", "l", "a", "i", "n">>, <<"y", "a", "m", "l">>, <<"y", "m", "l">>}

----------------------------------------------------------------------------
(* Properties of Renderer.Compact and Renderer.Pretty                      *)

\* C26: for every Renderer, format, value and writer, Compact returns the
\* error, leaves the writer and makes the invocations that Render with the
\* flag unset does, and Pretty those that Render with the flag set does:
\* Compact invokes Render of the handler found, Pretty its RenderPretty
\* when it has one and its Render otherwise.
C26_CompactPrettyAreRender ==
    /\ last.op = "Compact"
       => /\ last.res = RendererRender(Handlers, last.w0, last.format, FALSE,
                                       last.v)
          /\ last.res.calls # <<>> => last.res.calls[1].m = "Render"
    /\ last.op = "Pretty"
       => /\ last.res = RendererRender(Handlers, last.w0, last.format, TRUE,
                                       last.v)
          /\ last.res.calls # <<>>
             => last.res.calls[1].m =
                   IF IsPrettyHandler(last.res.calls[1].h)
                   THEN "RenderPretty" ELSE "Render"

\* Pretty invoked RenderPretty of a handler that has it and wrote its pretty
\* output
C26_Witness ==
    /\ last.op = "Pretty"
    /\ last.res.calls # <<>>
    /\ last.res.calls[1].h.kind = "mockPrettyHandler"
    /\ last.res.calls[1].m = "RenderPretty"
    /\ last.res.err = Nil
    /\ last.res.w.buf = <<"p", "x">>

----------------------------------------------------------------------------
(* Properties of New                                                       *)

\* C27 as stated: in the Renderer that New returns for a map whose keys are
\* distinct after lower-casing, every key of the map resolves to the
\* handler the map holds under it, whatever the order in which New visited
\* the map, and so New can return one Renderer only.
C27_NewDeterministic ==
    last.op = "New"
    => /\ \A k \in DOMAIN last.handlers :
             /\ HasHandler(Handlers, k)
             /\ Lookup(Handlers, k) = last.handlers[k]
       /\ \A hm \in New(last.handlers) : hm = Handlers

\* New was given a handler without formats under "a" and a handler that
\* declares "a" and "b" under "b"; it visited "a" first, and "a" holds the
\* handler given under "b"
C27_Witness ==
    /\ last.op = "New"
    /\ DOMAIN last.handlers = {<<"a">>, <<"b">>}
    /\ Formats(last.handlers[<<"a">>]) = <<>>
    /\ Formats(last.handlers[<<"b">>]) = <<<<"a">>, <<"b">>>>
    /\ Handlers[<<"a">>] = last.handlers[<<"b">>]
    /\ Handlers[<<"a">>] # last.handlers[<<"a">>]

----------------------------------------------------------------------------
(* Properties of NewWith and Add as changes of the mapping                 *)

\* C28 as stated: every key of the Renderer that r.NewWith returns is a key
\* of r and holds the handler that r holds under it.
C28_NewWithSubMapping ==
    last.op = "NewWith"
    => \A k \in DOMAIN Handlers :
           /\ k \in DOMAIN last.r
           /\ Handlers[k] = last.r[k]

\* r holds under "a" a handler that declares "a" and "b", and under "b",
\* by a later Add, another handler; r.NewWith("a") holds the first handler
\* under "b"
C28_Witness ==
    /\ last.op = "NewWith"
    /\ last.formats = <<<<"a">>>>
    /\ DOMAIN last.r = {<<"a">>, <<"b">>}
    /\ Formats(last.r[<<"a">>]) = <<<<"a">>, <<"b">>>>
    /\ Formats(last.r[<<"b">>]) = <<>>
    /\ DOMAIN Handlers = {<<"a">>, <<"b">>}
    /\ Handlers[<<"b">>] = last.r[<<"a">>]
    /\ Handlers[<<"b">>] # last.r[<<"b">>]

\* C29: a step that is an Add(format, h) sets the entries for the
\* lower-cased format, when it is not empty, and for the lower-cased
\* non-empty formats h declares, to h; every other entry keeps its handler,
\* no key is removed, and the keys after it are those before it and these.
\* A name that a handler was registered under as its alias therefore keeps
\* that handler when another handler, which does not declare it, is
\* registered under the first one's format.
C29_AddFrame ==
    [][(last = NoCall /\ last'.op = "Add")
       => LET h == last'.handler
              touched == ({ToLower(last'.format)} \ {<<>>}) \cup Declared(h)
          IN /\ DOMAIN Handlers' = DOMAIN Handlers \cup touched
             /\ \A k \in touched : Handlers'[k] = h
             /\ \A k \in DOMAIN Handlers \ touched : Handlers'[k] = Handlers[k]
      ]_vars

\* "a" was given to a handler that declares "a" and "b" and then to a
\* handler without formats: "b" still holds the first
C29_Witness ==
    /\ Len(log) = 2
    /\ log[1].format = <<"a">>
    /\ Formats(log[1].handler) = <<<<"a">>, <<"b">>>>
    /\ log[2].format = <<"a">>
    /\ Formats(log[2].handler) = <<>>
    /\ last.op = "Add"
    /\ Handlers[<<"a">>] = log[2].handler
    /\ Handlers[<<"b">>] = log[1].handler

\* C30: a step that is d := r.NewWith(...) leaves r.Handlers as it was and
\* gives d a map of its own, holding handlers that r holds; a step that is
\* an Add on d changes the Handlers of d as Add does and leaves r.Handlers
\* as it was; a step that is an Add on r, once d exists, changes r.Handlers
\* as Add does and leaves the Handlers of d as they were.
C30_NewWithFreshMapping ==
    [][/\ (last = NoCall /\ last'.op = "NewWith")
          => /\ Handlers' = Handlers
             /\ derived'.map = "own"
             /\ derived'.Handlers \in RendererNewWith(Handlers, last'.formats)
             /\ \A k \in DOMAIN derived'.Handlers :
                   \E j \in DOMAIN Handlers :
                       derived'.Handlers[k] = Handlers[j]
       /\ (last = NoCall /\ last'.op = "d.Add")
          => /\ Handlers' = Handlers
             /\ HandlersOf(derived', Handlers') =
                   RendererAdd(HandlersOf(derived, Handlers), last'.format,
                               last'.handler)
       /\ (last = NoCall /\ last'.op = "Add" /\ derived # NoRenderer)
          => /\ Handlers' = RendererAdd(Handlers, last'.format, last'.handler)
             /\ HandlersOf(derived', Handlers') = HandlersOf(derived, Handlers)
      ]_vars

\* d was made from r with the key "a"; "b" was then added to d and is no
\* key of r
C30_Witness ==
    /\ last.op = "d.Add"
    /\ last.format = <<"b">>
    /\ derived.map = "own"
    /\ DOMAIN derived.Handlers = {<<"a">>, <<"b">>}
    /\ DOMAIN Handlers = {<<"a">>}
    /\ derived.Handlers[<<"a">>] = Handlers[<<"a">>]

====
